---- MODULE Spec2Model ----
(***************************************************************************)
(* Model of the graph agent of backend/app/graph_agent.py: the fixed       *)
(* pipeline planner -> router -> {knowledge_search | tool_executor |       *)
(* reflector} -> synthesizer -> END, its node functions, the state merge   *)
(* of the AgentState annotations, and the task inference helpers.          *)
(*                                                                         *)
(* Abstractions.  A query is a sequence of tokens, each keyword of the     *)
(* source being one token written in pinyin; "keyword in query" is token   *)
(* membership.  A text produced by a collaborator (model reply, tool       *)
(* output, retrieved passage) is a tag naming what the code looks for in   *)
(* it.  A thought is the name of the node that appended it; an observation *)
(* is a record [src, kb, hit]: kb says that the text contains the word     *)
(* "knowledge base" (zhishiku) and hit that it contains "retrieved"        *)
(* (jiansuodao), the two substrings the router looks for.                  *)
(***************************************************************************)
EXTENDS Integers, Sequences, FiniteSets, TLC

\* ------------------------------------------------------------------ bounds
\* Largest max_iterations a run is started with.
MaxIter == 4

\* Largest number of nodes and of edges of a graph handed to
\* build_dynamic_graph on its own.
MaxNodes == 3

MaxEdges == 2

\* None of Python
Null == "NULL"

\* ------------------------------------------------------- program constants
TASK_ORDER == <<"weather", "search", "diagram", "note">>

MAX_TOOL_CALLS == 5

\* Tokens of RAIN_KEYWORDS a tool output is tagged with.
RAIN_KEYWORDS == {"rain"}

\* ------------------------------------------------------------ sequences
Range(s) == {s[i] : i \in 1..Len(s)}

RECURSIVE SelectTasks(_, _)
\* the tasks of TASK_ORDER, from position i on, whose score is positive
SelectTasks(i, scored) ==
  IF i > Len(TASK_ORDER) THEN <<>>
  ELSE (IF TASK_ORDER[i] \in scored THEN <<TASK_ORDER[i]>> ELSE <<>>)
       \o SelectTasks(i + 1, scored)

\* ------------------------------------------------------- task inference
WeatherIndicators ==
  {"tianqi", "qiwen", "xiayu", "jiangyu", "mingtian", "jintian", "houtian", "weather", "forecast"}

SearchStrongKeywords ==
  {"sousuo", "chazhao", "souyixia", "research", "zuixinjinzhan", "kuosanmoxing"}

DiagramKeywords ==
  {"siweidaotu", "liuchengtu", "huatu", "huizhi", "diagram", "daotu", "huage"}

NoteKeywords ==
  {"biji", "tixing", "jilu", "beiwang", "daisan", "tixingwo", "xiegebiji"}

\* the cities of COMMON_CHINESE_CITIES that the queries name
Cities == {"beijing", "shanghai"}

\* the time words that, next to a city, score for the weather task
TimeWords == {"mingtian", "jintian", "houtian", "tomorrow", "today"}

\* infer_tool_tasks: categories with a positive score, in TASK_ORDER
infer_tool_tasks(query) ==
  IF Len(query) = 0 THEN <<>>
  ELSE LET toks == Range(query)
           scored ==
             (IF \/ toks \cap WeatherIndicators # {}
                 \/ toks \cap Cities # {} /\ toks \cap TimeWords # {}
              THEN {"weather"} ELSE {})
             \cup (IF toks \cap SearchStrongKeywords # {} THEN {"search"} ELSE {})
             \cup (IF toks \cap DiagramKeywords # {} THEN {"diagram"} ELSE {})
             \cup (IF toks \cap NoteKeywords # {} THEN {"note"} ELSE {})
       IN SelectTasks(1, scored)

BuiltinKeyMapping ==
  [get_weather |-> "weather", web_search |-> "search",
   draw_diagram |-> "diagram", write_note |-> "note"]

\* map_tool_to_task: None for a non-builtin tool or an unknown builtin key
map_tool_to_task(tool) ==
  IF tool.tool_type # "builtin" THEN Null
  ELSE IF tool.builtin_key \in DOMAIN BuiltinKeyMapping
       THEN BuiltinKeyMapping[tool.builtin_key]
       ELSE Null

\* completed_tasks / skipped_task_keys of should_call_tool and tool_executor
TasksOf(entries) == {entries[i].task : i \in 1..Len(entries)}

\* should_call_tool
should_call_tool(st) ==
  IF Len(st.tool_calls_made) >= MAX_TOOL_CALLS THEN FALSE
  ELSE LET tasks == infer_tool_tasks(st.user_query)
           completed == TasksOf(st.tool_calls_made)
           skipped == TasksOf(st.skipped_tasks)
       IN \E i \in 1..Len(tasks) :
            /\ tasks[i] \notin completed
            /\ tasks[i] \notin skipped
            /\ ~(/\ tasks[i] = "note"
                 /\ "weather" \in Range(tasks)
                 /\ "weather" \notin completed
                 /\ "weather" \notin skipped)

\* detect_rain_in_text
detect_rain_in_text(text) == text \in RAIN_KEYWORDS


\* --------------------------------------------------------- language model
\* What the HTTP exchange of invoke_llm can end in: a 200 answer carrying
\* a text, another status code, or an exception of the HTTP client.
LlmOk(text) == [kind |-> "ok", content |-> text]

LlmHttpError == [kind |-> "http_error", content |-> ""]

LlmException == [kind |-> "exception", content |-> ""]

\* the two failure texts invoke_llm returns instead of raising
ApiFailText == "API_FAILED_status"

LlmFailText == "LLM_FAILED_exception"

\* invoke_llm: the reply text; a failure is returned as a text, not raised
invoke_llm(resp) ==
  CASE resp.kind = "ok" -> resp.content
    [] resp.kind = "http_error" -> ApiFailText
    [] OTHER -> LlmFailText

\* str.strip().upper() on the replies of the model
StripUpper(text) ==
  CASE text \in {"A", "a", " a "} -> "A"
    [] text \in {"B", "b"} -> "B"
    [] text \in {"C", "c"} -> "C"
    [] OTHER -> text

\* ------------------------------------------------------------ state merge
\* the fields of AgentState annotated with operator.add
AppendFields ==
  {"tool_calls_made", "tool_results", "skipped_tasks", "thoughts", "observations"}

\* faulty variant: every key of the update overwrites the field
Merge_Overwrites(st, upd) ==
  [k \in DOMAIN st |-> IF k \in DOMAIN upd THEN upd[k] ELSE st[k]]

\* faulty variant: retrieved_contexts is emptied when the update lacks it
Merge_DropsContexts(st, upd) ==
  [k \in DOMAIN st |->
     IF k \in DOMAIN upd
     THEN IF k \in AppendFields THEN st[k] \o upd[k] ELSE upd[k]
     ELSE IF k = "retrieved_contexts" THEN <<>> ELSE st[k]]

\* the merge of a node's partial update into the state
Merge(st, upd) ==
  [k \in DOMAIN st |->
     IF k \in DOMAIN upd
     THEN IF k \in AppendFields THEN st[k] \o upd[k] ELSE upd[k]
     ELSE st[k]]

\* the text of an observation: where it comes from and the words it holds
Obs(src, kb, hit) == [src |-> src, kb |-> kb, hit |-> hit]

\* any("zhishiku" in obs for obs in observations)
AnyKb(observations) == \E i \in 1..Len(observations) : observations[i].kb

\* any("zhishiku" in obs or "jiansuodao" in obs for obs in observations)
AnyKbOrHit(observations) ==
  \E i \in 1..Len(observations) : observations[i].kb \/ observations[i].hit

\* ---------------------------------------------------------------- planner
\* planner_node: the plan built from the parsed reply, or from the default
\* structure parse_json_from_llm returns when the reply is not JSON
planner_node(st, resp) ==
  LET reply == invoke_llm(resp)
      plan_text == IF reply = "json" THEN "plan_from_reply" ELSE "plan_from_default"
  IN [plan |-> plan_text, current_step |-> 0,
      thoughts |-> <<"planner">>, next_action |-> "route"]

\* ----------------------------------------------------------------- router
\* faulty variant: the cap compares with > instead of >=
RouterCapped_OffByOne(st) == st.current_step > st.max_iterations

\* the hard cap of router_node
RouterCapped(st) == st.current_step >= st.max_iterations

\* faulty variant: the pending-tool rule is tried before the knowledge-base rule
RouterFirstStep_ToolFirst(st) ==
  IF st.current_step # 0 THEN Null
  ELSE IF should_call_tool(st) THEN "tool_executor"
  ELSE IF st.use_knowledge_base /\ ~AnyKb(st.observations) THEN "search_kb"
  ELSE Null

\* the step 0 rules of router_node; Null when none applies
RouterFirstStep(st) ==
  IF st.current_step # 0 THEN Null
  ELSE IF st.use_knowledge_base /\ ~AnyKb(st.observations) THEN "search_kb"
  ELSE IF should_call_tool(st) THEN "tool_executor"
  ELSE Null

\* faulty variant: the model is also asked when a step 0 rule applies
RouterCallsLlm_AlsoAtStepZero(st) == ~RouterCapped(st)

\* whether router_node reaches its invoke_llm call
RouterCallsLlm(st) == ~RouterCapped(st) /\ RouterFirstStep(st) = Null

\* kb_already_searched of router_node
KbAlreadySearched(st) ==
  Len(st.retrieved_contexts) > 0 \/ AnyKbOrHit(st.observations)

\* action_map.get(decision, "synthesize")
ActionMap(decision) ==
  CASE decision = "A" -> "search_kb"
    [] decision = "B" -> "tool_executor"
    [] decision = "C" -> "synthesize"
    [] OTHER -> "synthesize"

\* faulty variant: the decision of the model is taken as it is
RouterLlmDecision_NoGuard(st, text) == ActionMap(StripUpper(text))

\* the decision of the model with the guard against a repeated search
RouterLlmDecision(st, text) ==
  LET next_action == ActionMap(StripUpper(text))
  IN IF next_action = "search_kb" /\ KbAlreadySearched(st)
     THEN IF should_call_tool(st) THEN "tool_executor" ELSE "synthesize"
     ELSE next_action

\* the except branch of router_node (entered only if the try body raises;
\* invoke_llm returns its failures as texts, so no reply leads here)
RouterFallback(st) ==
  LET kb_searched == KbAlreadySearched(st)
  IN IF st.use_knowledge_base /\ ~kb_searched /\ st.current_step < 2
       THEN "search_kb"
     ELSE IF kb_searched /\ st.current_step >= 2
       THEN IF should_call_tool(st) THEN "tool_executor" ELSE "synthesize"
     ELSE IF should_call_tool(st) THEN "tool_executor"
     ELSE "synthesize"

\* next_action chosen by router_node
RouterDecision(st, resp) ==
  IF RouterCapped(st) THEN "synthesize"
  ELSE IF RouterFirstStep(st) # Null THEN RouterFirstStep(st)
  ELSE RouterLlmDecision(st, invoke_llm(resp))

\* faulty variant: the step counter is left as it is
router_node_NoIncrement(st, resp) ==
  [next_action |-> RouterDecision(st, resp),
   thoughts |-> <<"router">>,
   current_step |-> st.current_step]

\* router_node
router_node(st, resp) ==
  [next_action |-> RouterDecision(st, resp),
   thoughts |-> <<"router">>,
   current_step |-> st.current_step + 1]

\* ------------------------------------------------------- knowledge search
\* what retrieve_context ends in: the passages it returns, or an exception
Retrieved(docs) == [raised |-> FALSE, docs |-> docs]

RetrieveRaises == [raised |-> TRUE, docs |-> <<>>]

\* faulty variant: a failed retrieval leaves no error behind
knowledge_search_node_SilentFailure(st, ret) ==
  IF ret.raised
  THEN [retrieved_contexts |-> <<>>,
        observations |-> <<Obs("kb_failed", TRUE, FALSE)>>]
  ELSE [retrieved_contexts |-> ret.docs,
        observations |-> <<Obs("kb_retrieved", TRUE, TRUE)>>,
        thoughts |-> <<"knowledge_search">>]

\* knowledge_search_node
knowledge_search_node(st, ret) ==
  IF ret.raised
  THEN [retrieved_contexts |-> <<>>,
        observations |-> <<Obs("kb_failed", TRUE, FALSE)>>,
        error |-> "retrieve_failed"]
  ELSE [retrieved_contexts |-> ret.docs,
        observations |-> <<Obs("kb_retrieved", TRUE, TRUE)>>,
        thoughts |-> <<"knowledge_search">>]

\* ---------------------------------------------------------- tool executor
\* what execute_tool ends in: the text it returns, or an exception
ToolReturns(text) == [raised |-> FALSE, output |-> text]

ToolRaises == [raised |-> TRUE, output |-> ""]

\* "tianqi" in tool_name
NameHasWeatherWord(name) == name \in {"tianqi_chaxun", "tianqi_sousuo"}

\* the texts that contain the word "zhishiku"
TextHasKb(text) == text \in {"results_zhishiku"}

RECURSIVE FirstToolFor(_, _, _)
\* tool_index[task]: the first active record mapped to the task, from
\* position i on, as a one-element sequence; <<>> when there is none
FirstToolFor(task, tool_records, i) ==
  IF i > Len(tool_records) THEN <<>>
  ELSE IF tool_records[i].is_active /\ map_tool_to_task(tool_records[i]) = task
       THEN <<tool_records[i]>>
       ELSE FirstToolFor(task, tool_records, i + 1)

RECURSIVE FirstPending(_, _, _)
\* pending_task: the first inferred task neither completed nor skipped
FirstPending(tasks, done, i) ==
  IF i > Len(tasks) THEN Null
  ELSE IF tasks[i] \in done THEN FirstPending(tasks, done, i + 1)
  ELSE tasks[i]

\* faulty variant: the skipped tasks are not excluded
PendingTask_IgnoresSkipped(st) ==
  FirstPending(infer_tool_tasks(st.user_query), TasksOf(st.tool_calls_made), 1)

\* faulty variant: the last pending task of the order is taken
PendingTask_LastPending(st) ==
  LET tasks == infer_tool_tasks(st.user_query)
      done == TasksOf(st.tool_calls_made) \cup TasksOf(st.skipped_tasks)
      pending == {i \in 1..Len(tasks) : tasks[i] \notin done}
  IN IF pending = {} THEN Null
     ELSE tasks[CHOOSE i \in pending : \A j \in pending : j <= i]

\* pending_task of tool_executor_node
PendingTask(st) ==
  FirstPending(infer_tool_tasks(st.user_query),
               TasksOf(st.tool_calls_made) \cup TasksOf(st.skipped_tasks), 1)

RECURSIVE LastResultWhere(_, _, _)
\* for result in reversed(tool_results): the last result of the task, or
\* (when byName) whose tool name holds the weather word; <<>> when none
LastResultWhere(results, task, byName) ==
  IF Len(results) = 0 THEN <<>>
  ELSE LET r == results[Len(results)]
       IN IF r.task = task \/ (byName /\ NameHasWeatherWord(r.tool_name))
          THEN <<r>>
          ELSE LastResultWhere(SubSeq(results, 1, Len(results) - 1), task, byName)

\* weather_result of the note branch
WeatherResult(st) == LastResultWhere(st.tool_results, "weather", TRUE)

\* why the note task is skipped before any tool runs; Null when it is not
NoteSkipReason(st) ==
  IF WeatherResult(st) = <<>> THEN "note_needs_weather"
  ELSE IF ~detect_rain_in_text(WeatherResult(st)[1].output) THEN "no_rain"
  ELSE Null

\* the diagram keywords that select the mindmap type
MindmapKeywords == {"siweidaotu", "daotu", "mindmap"}

\* search_context of the diagram branch: the output of the last search
SearchContext(st) ==
  LET found == LastResultWhere(st.tool_results, "search", FALSE)
  IN IF found = <<>> THEN "" ELSE found[1].output

\* SEARCH_PREFIXES, in the order of the list
SEARCH_PREFIXES ==
  << <<"bangwo", "sousuo">>, <<"qing", "sousuo">>, <<"sousuo", "yixia">>,
     <<"cha", "yixia">>, <<"chaxun", "yixia">>, <<"bangwo", "cha">>,
     <<"qing", "bangwo", "cha">>, <<"bangwo", "zhao">>, <<"zhao", "yixia">>,
     <<"qing", "bangwo", "sousuo">> >>

\* SEARCH_SUFFIXES, in the order of the list
SEARCH_SUFFIXES ==
  <<"bingzongjie", "binghua", "bingbangwo", "bingxie", "ranhou", "shunbian",
    "tongshi", "zongjie", "tixing", "xiegebiji", "huage", "daisan">>

\* cleaned.startswith(prefix)
StartsWith(cleaned, prefix) ==
  Len(prefix) <= Len(cleaned) /\ SubSeq(cleaned, 1, Len(prefix)) = prefix

RECURSIVE StripPrefix(_, _)
\* the first loop of extract_search_query: the first prefix of the list,
\* from position i on, that the text starts with is cut off
StripPrefix(cleaned, i) ==
  IF i > Len(SEARCH_PREFIXES) THEN cleaned
  ELSE IF StartsWith(cleaned, SEARCH_PREFIXES[i])
       THEN SubSeq(cleaned, Len(SEARCH_PREFIXES[i]) + 1, Len(cleaned))
       ELSE StripPrefix(cleaned, i + 1)

\* suffix in word: the word is the suffix or holds it
HoldsWord(word, suffix) ==
  word = suffix \/ (word = "tixingwo" /\ suffix = "tixing")

\* cleaned.find(suffix), counted from 1; 0 when the suffix is not found
FindWord(cleaned, suffix) ==
  IF \E i \in 1..Len(cleaned) : HoldsWord(cleaned[i], suffix)
  THEN CHOOSE i \in 1..Len(cleaned) :
         /\ HoldsWord(cleaned[i], suffix)
         /\ \A j \in 1..(i - 1) : ~HoldsWord(cleaned[j], suffix)
  ELSE 0

RECURSIVE CutAtSuffix(_, _)
\* the second loop of extract_search_query: the text is cut at the first
\* suffix of the list, from position j on, found after its start
CutAtSuffix(cleaned, j) ==
  IF j > Len(SEARCH_SUFFIXES) THEN cleaned
  ELSE IF FindWord(cleaned, SEARCH_SUFFIXES[j]) >= 2
       THEN SubSeq(cleaned, 1, FindWord(cleaned, SEARCH_SUFFIXES[j]) - 1)
       ELSE CutAtSuffix(cleaned, j + 1)

\* faulty variant: the known prefix is left in the search text
extract_search_query_KeepsPrefix(query) ==
  IF Len(query) = 0 THEN <<>>
  ELSE LET cleaned == CutAtSuffix(query, 1)
       IN IF cleaned = <<>> THEN query ELSE cleaned

\* extract_search_query
extract_search_query(query) ==
  IF Len(query) = 0 THEN <<>>
  ELSE LET cleaned == CutAtSuffix(StripPrefix(query, 1), 1)
       IN IF cleaned = <<>> THEN query ELSE cleaned

\* the arguments built for the pending task
ToolArgs(st, task) ==
  CASE task = "weather" -> "city"
    [] task = "search" -> [query |-> extract_search_query(st.user_query)]
    [] task = "diagram" ->
         IF SearchContext(st) # "" THEN "diagram_from_search" ELSE "diagram_generic"
    [] OTHER -> "note_for_city"

\* whether tool_executor_node reaches its execute_tool call
ToolExecutes(st, tool_records) ==
  LET task == PendingTask(st)
  IN /\ task # Null
     /\ FirstToolFor(task, tool_records, 1) # <<>>
     /\ (task = "note" => NoteSkipReason(st) = Null)

\* whether tool_executor_node asks the model for a mindmap
ToolExecutorCallsLlm(st, tool_records) ==
  /\ ToolExecutes(st, tool_records)
  /\ PendingTask(st) = "diagram"
  /\ SearchContext(st) # ""
  /\ Range(st.user_query) \cap MindmapKeywords # {}

\* faulty variant: a skipped task is recorded without an observation
SkipUpdate_NoObservation(task, reason) ==
  [skipped_tasks |-> <<[task |-> task, reason |-> reason]>>,
   thoughts |-> <<"tool_executor">>]

\* the update that records a skipped task
SkipUpdate(task, reason) ==
  [skipped_tasks |-> <<[task |-> task, reason |-> reason]>>,
   observations |-> <<Obs(reason, FALSE, FALSE)>>,
   thoughts |-> <<"tool_executor">>]

\* faulty variant: the result of a tool is not appended to tool_results
tool_executor_node_NoResult(st, tool_records, res) ==
  LET task == PendingTask(st)
      found == FirstToolFor(task, tool_records, 1)
  IN IF infer_tool_tasks(st.user_query) = <<>>
       THEN [thoughts |-> <<"tool_executor">>,
             observations |->
               <<Obs("no_tool_task", "zhishiku" \in Range(st.user_query), FALSE)>>,
             next_action |-> "synthesize"]
     ELSE IF task = Null
       THEN [thoughts |-> <<"tool_executor">>,
             observations |-> <<Obs("all_tasks_done", FALSE, FALSE)>>,
             next_action |-> "synthesize"]
     ELSE IF found = <<>>
       THEN SkipUpdate(task, "tool_not_found")
     ELSE IF task = "note" /\ NoteSkipReason(st) # Null
       THEN SkipUpdate("note", NoteSkipReason(st))
     ELSE IF res.raised
       THEN [observations |-> <<Obs("tool_failed", FALSE, FALSE)>>,
             error |-> "tool_failed",
             thoughts |-> <<"tool_executor">>]
     ELSE [tool_calls_made |->
             <<[tool_id |-> found[1].id, tool_name |-> found[1].name,
                task |-> task, arguments |-> ToolArgs(st, task),
                result |-> res.output]>>,
           observations |-> <<Obs("tool_done", TextHasKb(res.output), FALSE)>>,
           thoughts |-> <<"tool_executor">>]

\* faulty variant: a category whose tool raised is recorded as skipped
tool_executor_node_SkipsFailed(st, tool_records, res) ==
  LET task == PendingTask(st)
      found == FirstToolFor(task, tool_records, 1)
  IN IF infer_tool_tasks(st.user_query) = <<>>
       THEN [thoughts |-> <<"tool_executor">>,
             observations |->
               <<Obs("no_tool_task", "zhishiku" \in Range(st.user_query), FALSE)>>,
             next_action |-> "synthesize"]
     ELSE IF task = Null
       THEN [thoughts |-> <<"tool_executor">>,
             observations |-> <<Obs("all_tasks_done", FALSE, FALSE)>>,
             next_action |-> "synthesize"]
     ELSE IF found = <<>>
       THEN SkipUpdate(task, "tool_not_found")
     ELSE IF task = "note" /\ NoteSkipReason(st) # Null
       THEN SkipUpdate("note", NoteSkipReason(st))
     ELSE IF res.raised
       THEN [skipped_tasks |-> <<[task |-> task, reason |-> "tool_failed"]>>,
             observations |-> <<Obs("tool_failed", FALSE, FALSE)>>,
             error |-> "tool_failed",
             thoughts |-> <<"tool_executor">>]
     ELSE [tool_calls_made |->
             <<[tool_id |-> found[1].id, tool_name |-> found[1].name,
                task |-> task, arguments |-> ToolArgs(st, task),
                result |-> res.output]>>,
           tool_results |->
             <<[tool_name |-> found[1].name, task |-> task,
                output |-> res.output, arguments |-> ToolArgs(st, task)]>>,
           observations |-> <<Obs("tool_done", TextHasKb(res.output), FALSE)>>,
           thoughts |-> <<"tool_executor">>]

\* tool_executor_node
tool_executor_node(st, tool_records, res) ==
  LET task == PendingTask(st)
      found == FirstToolFor(task, tool_records, 1)
  IN IF infer_tool_tasks(st.user_query) = <<>>
       THEN [thoughts |-> <<"tool_executor">>,
             observations |->
               <<Obs("no_tool_task", "zhishiku" \in Range(st.user_query), FALSE)>>,
             next_action |-> "synthesize"]
     ELSE IF task = Null
       THEN [thoughts |-> <<"tool_executor">>,
             observations |-> <<Obs("all_tasks_done", FALSE, FALSE)>>,
             next_action |-> "synthesize"]
     ELSE IF found = <<>>
       THEN SkipUpdate(task, "tool_not_found")
     ELSE IF task = "note" /\ NoteSkipReason(st) # Null
       THEN SkipUpdate("note", NoteSkipReason(st))
     ELSE IF res.raised
       THEN [observations |-> <<Obs("tool_failed", FALSE, FALSE)>>,
             error |-> "tool_failed",
             thoughts |-> <<"tool_executor">>]
     ELSE [tool_calls_made |->
             <<[tool_id |-> found[1].id, tool_name |-> found[1].name,
                task |-> task, arguments |-> ToolArgs(st, task),
                result |-> res.output]>>,
           tool_results |->
             <<[tool_name |-> found[1].name, task |-> task,
                output |-> res.output, arguments |-> ToolArgs(st, task)]>>,
           observations |-> <<Obs("tool_done", TextHasKb(res.output), FALSE)>>,
           thoughts |-> <<"tool_executor">>]

\* -------------------------------------------------------------- reflector
\* reflector_node; quality_score in tenths
reflector_node(st) ==
  LET quality_score ==
        IF Len(st.tool_results) > 0 \/ Len(st.retrieved_contexts) > 0 THEN 7 ELSE 3
  IN [reflection |-> "reflection",
      quality_score |-> quality_score,
      needs_human_input |-> (quality_score < 5 /\ st.current_step > 3),
      thoughts |-> <<"reflector">>]

\* ------------------------------------------------------------ synthesizer
\* faulty variant: no answer is set when the model fails
synthesizer_node_NoAnswerOnFailure(st, resp) ==
  [final_answer |-> IF resp.kind = "ok" THEN invoke_llm(resp) ELSE Null,
   is_complete |-> TRUE,
   thoughts |-> <<"synthesizer">>]

\* synthesizer_node: the reply of invoke_llm is the final answer; a failure
\* of the model is a text too, so the except branch is not entered
synthesizer_node(st, resp) ==
  [final_answer |-> invoke_llm(resp),
   is_complete |-> TRUE,
   thoughts |-> <<"synthesizer">>]

\* ------------------------------------------------------------ graph edges
\* faulty variant: the synthesize label leads straight to synthesizer
route_after_routing_SkipsReflector(st) ==
  CASE st.next_action = "search_kb" -> "knowledge_search"
    [] st.next_action = "tool_executor" -> "tool_executor"
    [] OTHER -> "synthesizer"

\* route_after_routing
route_after_routing(st) ==
  CASE st.next_action = "search_kb" -> "knowledge_search"
    [] st.next_action = "tool_executor" -> "tool_executor"
    [] st.next_action = "synthesize" -> "reflector"
    [] OTHER -> "synthesizer"


\* ------------------------------------------------- dynamic agent builder
\* END of langgraph
END == "END"

\* a node of a custom agent: {id, type, data}; a missing id or type is ""
NodeConfig(id, type, data) == [id |-> id, type |-> type, data |-> data]

\* node data: the keys the handlers read, with the defaults they use
NodeData(toolId, conditionType, conditionValue, checkField) ==
  [toolId |-> toolId, conditionType |-> conditionType,
   conditionValue |-> conditionValue, checkField |-> checkField,
   maxIterations |-> 5, condition |-> ""]

NoData == NodeData("", "always", "", "user_query")

\* an edge of a custom agent: {source, target, condition}; no condition is ""
Edge(source, target, condition) ==
  [source |-> source, target |-> target, condition |-> condition]

\* handle_planner_node
handle_planner_node(st, resp) ==
  [plan |-> invoke_llm(resp), thoughts |-> <<"planner">>]

RECURSIVE FirstToolWithId(_, _, _)
\* next((t for t in tool_records if t.id == tool_id), None) as a sequence
FirstToolWithId(tool_id, tool_records, i) ==
  IF i > Len(tool_records) THEN <<>>
  ELSE IF tool_records[i].id = tool_id THEN <<tool_records[i]>>
  ELSE FirstToolWithId(tool_id, tool_records, i + 1)

\* whether handle_tool_executor_node reaches its execute_tool call
DynamicToolExecutes(data, tool_records) ==
  data.toolId # "" /\ FirstToolWithId(data.toolId, tool_records, 1) # <<>>

\* handle_tool_executor_node; its result record has no task key
handle_tool_executor_node(st, tool_records, data, res) ==
  LET found == FirstToolWithId(data.toolId, tool_records, 1)
  IN IF data.toolId = ""
       THEN [observations |-> <<Obs("no_tool_id", FALSE, FALSE)>>,
             error |-> "missing_tool_id"]
     ELSE IF found = <<>>
       THEN [observations |-> <<Obs("no_such_tool", FALSE, FALSE)>>,
             error |-> "tool_not_found"]
     ELSE IF res.raised
       THEN [observations |-> <<Obs("tool_failed", FALSE, FALSE)>>,
             error |-> "tool_failed"]
     ELSE [tool_results |->
             <<[tool_name |-> found[1].name, task |-> Null,
                output |-> res.output, arguments |-> "from_query"]>>,
           observations |-> <<Obs("tool_done", FALSE, FALSE)>>,
           thoughts |-> <<"tool_executor">>]

\* str(state.get(check_field, "")) for the fields that hold a text or None
StrOfField(st, field) ==
  IF field = "user_query"
  THEN (IF Len(st.user_query) = 0 THEN "" ELSE st.user_query[1])
  ELSE IF st[field] = Null THEN "None" ELSE st[field]

\* should_continue of handle_condition_node
ConditionHolds(st, data) ==
  CASE data.conditionType = "contains" ->
         IF Len(st.tool_results) > 0
         THEN data.conditionValue = ""
              \/ st.tool_results[Len(st.tool_results)].output = data.conditionValue
         ELSE data.conditionValue = "" \/ data.conditionValue \in Range(st.user_query)
    [] data.conditionType = "equals" ->
         StrOfField(st, data.checkField) = data.conditionValue
    [] OTHER -> TRUE

\* handle_condition_node
handle_condition_node(st, data) ==
  [next_action |-> IF ConditionHolds(st, data) THEN "continue" ELSE "skip",
   thoughts |-> <<"condition">>,
   observations |-> <<Obs("condition", data.conditionValue = "zhishiku", FALSE)>>]

\* faulty variant: the reply of the model is stored as the answer
handle_llm_call_node_SetsAnswer(st, resp) ==
  [final_answer |-> invoke_llm(resp),
   thoughts |-> <<"llm_call">>,
   observations |-> <<Obs("llm_call", FALSE, FALSE)>>]

\* handle_llm_call_node
handle_llm_call_node(st, resp) ==
  [thoughts |-> <<"llm_call">>,
   observations |-> <<Obs("llm_call", FALSE, FALSE)>>]

\* handle_delay_node
handle_delay_node(st) ==
  [thoughts |-> <<"delay">>, observations |-> <<Obs("delay", FALSE, FALSE)>>]

\* handle_variable_node with a variable name set
handle_variable_node(st) ==
  [thoughts |-> <<"variable">>, observations |-> <<Obs("variable", FALSE, FALSE)>>]

\* handle_loop_node
handle_loop_node(st, data) ==
  IF st.current_step >= data.maxIterations
    THEN [next_action |-> "break", thoughts |-> <<"loop">>]
  ELSE IF /\ data.condition # ""
          /\ Len(st.tool_results) > 0
          /\ st.tool_results[Len(st.tool_results)].output # data.condition
    THEN [next_action |-> "break", thoughts |-> <<"loop">>]
  ELSE [next_action |-> "continue", thoughts |-> <<"loop">>]

\* the types of the dynamic nodes that call the model
LlmTypes == {"planner", "llm_call", "synthesizer"}

\* the node types dynamic_node has a handler for
KnownTypes ==
  {"planner", "knowledge_search", "tool_executor", "condition", "llm_call",
   "synthesizer", "delay", "variable", "loop"}

\* faulty variant: a node of unknown type also records an error
dynamic_node_UnknownSetsError(cfg, st, tool_records, resp, ret, res) ==
  CASE cfg.type = "planner" -> handle_planner_node(st, resp)
    [] cfg.type = "knowledge_search" -> knowledge_search_node(st, ret)
    [] cfg.type = "tool_executor" ->
         handle_tool_executor_node(st, tool_records, cfg.data, res)
    [] cfg.type = "condition" -> handle_condition_node(st, cfg.data)
    [] cfg.type = "llm_call" -> handle_llm_call_node(st, resp)
    [] cfg.type = "synthesizer" -> synthesizer_node(st, resp)
    [] cfg.type = "delay" -> handle_delay_node(st)
    [] cfg.type = "variable" -> handle_variable_node(st)
    [] cfg.type = "loop" -> handle_loop_node(st, cfg.data)
    [] OTHER -> [thoughts |-> <<"unknown_type">>, error |-> "unknown_type"]

\* dynamic_node of create_dynamic_node
dynamic_node(cfg, st, tool_records, resp, ret, res) ==
  CASE cfg.type = "planner" -> handle_planner_node(st, resp)
    [] cfg.type = "knowledge_search" -> knowledge_search_node(st, ret)
    [] cfg.type = "tool_executor" ->
         handle_tool_executor_node(st, tool_records, cfg.data, res)
    [] cfg.type = "condition" -> handle_condition_node(st, cfg.data)
    [] cfg.type = "llm_call" -> handle_llm_call_node(st, resp)
    [] cfg.type = "synthesizer" -> synthesizer_node(st, resp)
    [] cfg.type = "delay" -> handle_delay_node(st)
    [] cfg.type = "variable" -> handle_variable_node(st)
    [] cfg.type = "loop" -> handle_loop_node(st, cfg.data)
    [] OTHER -> [thoughts |-> <<"unknown_type">>]

\* node_map of build_dynamic_graph: the nodes that have an id and a type
NodeMap(nodes) == SelectSeq(nodes, LAMBDA n : n.id # "" /\ n.type # "")

\* the ids registered in node_map
NodeIds(nodes) == {NodeMap(nodes)[i].id : i \in 1..Len(NodeMap(nodes))}

\* faulty variant: the last node without an incoming edge is the entry point
EntryPoint_LastCandidate(nodes, edges) ==
  LET target_nodes == {edges[i].target : i \in 1..Len(edges)}
      entry_nodes == SelectSeq(NodeMap(nodes), LAMBDA n : n.id \notin target_nodes)
  IN IF Len(entry_nodes) > 0 THEN entry_nodes[Len(entry_nodes)].id
     ELSE IF Len(nodes) > 0 THEN nodes[1].id
     ELSE Null

\* the entry point build_dynamic_graph sets; Null when it sets none
EntryPoint(nodes, edges) ==
  LET target_nodes == {edges[i].target : i \in 1..Len(edges)}
      entry_nodes == SelectSeq(NodeMap(nodes), LAMBDA n : n.id \notin target_nodes)
  IN IF Len(entry_nodes) > 0 THEN entry_nodes[1].id
     ELSE IF Len(nodes) > 0 THEN nodes[1].id
     ELSE Null

\* faulty variant: a condition other than always is tested like condition_true
route_func_TestsEveryCondition(cond, target_id, st) ==
  IF cond = "always" THEN target_id
  ELSE IF st.next_action = "continue" THEN target_id ELSE END

\* route_func of make_router
route_func(cond, target_id, st) ==
  IF cond = "always" THEN target_id
  ELSE IF cond = "condition_true"
       THEN (IF st.next_action = "continue" THEN target_id ELSE END)
  ELSE target_id

\* faulty variant: only the edges kept by the builder count as outgoing
Successors_ExitByKeptEdges(nodes, edges, id, s) ==
  LET ids == NodeIds(nodes)
      wired == {i \in 1..Len(edges) :
                  /\ edges[i].source = id
                  /\ edges[i].source \in ids
                  /\ edges[i].target \in ids}
  IN {IF edges[i].condition = "" THEN edges[i].target
      ELSE route_func(edges[i].condition, edges[i].target, s) : i \in wired}
     \cup (IF wired = {} THEN {END} ELSE {})

\* where the walk goes after node id, in state s: along the edges
\* build_dynamic_graph adds for it, and to END from a node no edge leaves
Successors(nodes, edges, id, s) ==
  LET ids == NodeIds(nodes)
      wired == {i \in 1..Len(edges) :
                  /\ edges[i].source = id
                  /\ edges[i].source \in ids
                  /\ edges[i].target \in ids}
      outgoing_edges == {edges[i].source : i \in 1..Len(edges)}
  IN {IF edges[i].condition = "" THEN edges[i].target
      ELSE route_func(edges[i].condition, edges[i].target, s) : i \in wired}
     \cup (IF id \notin outgoing_edges THEN {END} ELSE {})

\* max_iterations of the initial state of a custom agent
DynMaxIterations == 20

\* max_iterations of the initial state of run_agent
RunMaxIterations == 10

\* ------------------------------------------------------------------ inputs
\* a ToolRecord
Tool(id, name, key, type, active) ==
  [id |-> id, name |-> name, builtin_key |-> key, tool_type |-> type,
   is_active |-> active]

WeatherTool == Tool("t_weather", "tianqi_chaxun", "get_weather", "builtin", TRUE)

SearchTool == Tool("t_search", "web_search", "web_search", "builtin", TRUE)

DiagramTool == Tool("t_diagram", "draw_diagram", "draw_diagram", "builtin", TRUE)

NoteTool == Tool("t_note", "write_note", "write_note", "builtin", TRUE)

\* the tool registries a run is started with
Registries ==
  { <<>>,
    <<WeatherTool>>,
    <<SearchTool, DiagramTool>>,
    <<WeatherTool, NoteTool>>,
    <<WeatherTool, SearchTool, DiagramTool, NoteTool>>,
    <<Tool("t_old", "tianqi_chaxun", "get_weather", "builtin", FALSE),
      Tool("t_http", "http_get", "get_weather", "http", TRUE),
      SearchTool>> }

\* a registry whose search tool carries the weather word in its name
NamedRegistries ==
  { <<Tool("t_search", "tianqi_sousuo", "web_search", "builtin", TRUE), NoteTool>>,
    <<WeatherTool, Tool("t_search", "tianqi_sousuo", "web_search", "builtin", TRUE),
      NoteTool>> }

\* the queries a run is started with
Queries ==
  { <<>>,
    <<"nihao">>,
    <<"zhishiku", "jieshao">>,
    <<"beijing", "tianqi">>,
    <<"shanghai", "today">>,
    <<"bangwo", "sousuo", "deepseek", "zuixinjinzhan">>,
    <<"beijing", "mingtian", "tianqi", "tixingwo", "daisan">>,
    <<"sousuo", "kuosanmoxing", "huage", "siweidaotu">>,
    <<"jilu", "biji">>,
    <<"sousuo", "kuosanmoxing", "jilu", "biji">>,
    <<"beijing", "tianqi", "sousuo", "daotu", "biji">> }

\* the replies of the model to the planner, the router and the synthesizer
PlannerReplies == {LlmOk("json"), LlmOk("text"), LlmHttpError, LlmException}

RouterReplies ==
  {LlmOk(t) : t \in {"A", " a ", "B", "C", "D"}} \cup {LlmHttpError, LlmException}

SynthReplies == {LlmOk("answer"), LlmHttpError, LlmException}

\* stands for the reply when the model is not called
NoReply == [kind |-> "none", content |-> ""]

\* the outcomes of retrieve_context
RetrievalOutcomes ==
  {Retrieved(<<>>), Retrieved(<<[document_id |-> 1, original_name |-> "doc", content |-> "passage"]>>),
   RetrieveRaises}

\* the outcomes of execute_tool for a task
ToolOutcomes(task) ==
  {ToolRaises} \cup
  {ToolReturns(t) :
     t \in CASE task = "weather" -> {"sunny", "rain"}
             [] task = "search" -> {"results", "results_zhishiku", "rain", ""}
             [] OTHER -> {"saved"}}

\* the custom agents a run is started with; each node has at most one
\* outgoing edge
CustomAgents ==
  { [nodes |-> <<NodeConfig("a", "planner", NoData),
                 NodeConfig("b", "knowledge_search", NoData),
                 NodeConfig("c", "tool_executor", NodeData("t_weather", "always", "", "user_query")),
                 NodeConfig("d", "synthesizer", NoData)>>,
     edges |-> <<Edge("a", "b", ""), Edge("b", "c", ""), Edge("c", "d", "")>>],
    [nodes |-> <<NodeConfig("a", "condition", NodeData("", "contains", "tianqi", "user_query")),
                 NodeConfig("b", "llm_call", NoData),
                 NodeConfig("c", "synthesizer", NoData)>>,
     edges |-> <<Edge("a", "b", "condition_true"), Edge("b", "c", "always")>>],
    [nodes |-> <<NodeConfig("a", "router", NoData),
                 NodeConfig("b", "delay", NoData),
                 NodeConfig("c", "condition", NodeData("", "equals", "None", "final_answer")),
                 NodeConfig("d", "variable", NoData),
                 NodeConfig("e", "loop", NoData),
                 NodeConfig("f", "tool_executor", NoData)>>,
     edges |-> <<Edge("a", "b", "sometimes"), Edge("b", "c", ""), Edge("c", "d", "condition_true"),
                 Edge("d", "e", "sometimes"), Edge("e", "f", "condition_true")>>] }

\* the built-in agent of create_agent_graph
FixedGraph == [kind |-> "fixed", nodes |-> <<>>, edges |-> <<>>]

\* ------------------------------------------------------------------- state
VARIABLES
  graph,     \* the graph walked: the built-in one or a custom agent
  st,        \* the AgentState of the run
  node,      \* the node to execute next; "END" once the run is over
  tools,     \* tool_records of the run
  trace,     \* the nodes executed so far, in order
  reply,     \* what the model answered to the last node; NoReply if not asked
  llmCalls,  \* number of invoke_llm calls so far
  execCalls, \* number of execute_tool calls so far
  raised,    \* whether retrieve_context or execute_tool raised in the last node
  call,      \* the call served: its entry point, the events it emitted and
             \* what it returned
  saver,     \* the checkpoints of the runs that are not executing, by key
  run        \* the id of the run that is executing

vars == <<graph, st, node, tools, trace, reply, llmCalls, execCalls, raised,
          call, saver, run>>

\* a call of run_agent or execute_custom_agent: no events, nothing returned yet
RunCall == [api |-> "run", events |-> <<>>, result |-> <<>>]

\* a call of stream_agent or stream_custom_agent
StreamCall == [api |-> "stream", events |-> <<>>, result |-> <<>>]

\* a single call of run_agent or execute_custom_agent is served
OneRun ==
  /\ call = RunCall
  /\ saver = <<>>
  /\ run = 1

\* the event the stream functions yield for a completed node
NodeOutput(node_name, node_output) ==
  [event |-> "node_output", node |-> node_name, data |-> node_output]

\* the run walks the built-in graph
Fixed == graph.kind = "fixed"

\* initial_state of run_agent
InitialState(query, use_kb, max_iter) ==
  [user_query |-> query,
   plan |-> Null,
   current_step |-> 0,
   max_iterations |-> max_iter,
   tool_calls_made |-> <<>>,
   tool_results |-> <<>>,
   skipped_tasks |-> <<>>,
   use_knowledge_base |-> use_kb,
   retrieved_contexts |-> <<>>,
   thoughts |-> <<>>,
   observations |-> <<>>,
   next_action |-> Null,
   needs_human_input |-> FALSE,
   reflection |-> Null,
   quality_score |-> 0,
   final_answer |-> Null,
   is_complete |-> FALSE,
   error |-> Null]

\* run_agent: the built-in graph, entered at planner
InitFixed ==
  /\ graph = FixedGraph
  /\ \E q \in Queries, kb \in BOOLEAN, m \in 0..MaxIter :
       st = InitialState(q, kb, m)
  /\ node = "planner"

\* execute_custom_agent: the graph built from the agent's configuration
InitDynamic ==
  \E a \in CustomAgents, q \in Queries :
    /\ graph = [kind |-> "dynamic", nodes |-> a.nodes, edges |-> a.edges]
    /\ st = InitialState(q,
                         \E i \in 1..Len(a.nodes) : a.nodes[i].type = "knowledge_search",
                         DynMaxIterations)
    /\ node = EntryPoint(a.nodes, a.edges)

Init ==
  /\ (InitFixed \/ InitDynamic)
  /\ tools \in Registries
  /\ trace = <<>>
  /\ reply = NoReply
  /\ llmCalls = 0
  /\ execCalls = 0
  /\ raised = FALSE
  /\ OneRun

\* one node of the walk: merge its update, move along its edge
Step(update, next, resp, exec, exc) ==
  /\ st' = Merge(st, update)
  /\ node' = next
  /\ trace' = Append(trace, node)
  /\ reply' = resp
  /\ llmCalls' = llmCalls + (IF resp = NoReply THEN 0 ELSE 1)
  /\ execCalls' = execCalls + exec
  /\ raised' = exc
  /\ call' = IF call.api = "stream"
             THEN [call EXCEPT !.events = Append(@, NodeOutput(node, update))]
             ELSE call
  /\ UNCHANGED <<graph, tools, saver, run>>

Planner ==
  /\ Fixed /\ node = "planner"
  /\ \E resp \in PlannerReplies :
       Step(planner_node(st, resp), "router", resp, 0, FALSE)

Router ==
  /\ Fixed /\ node = "router"
  /\ \E resp \in (IF RouterCallsLlm(st) THEN RouterReplies ELSE {NoReply}) :
       Step(router_node(st, resp),
            route_after_routing(Merge(st, router_node(st, resp))), resp, 0, FALSE)

KnowledgeSearch ==
  /\ Fixed /\ node = "knowledge_search"
  /\ \E ret \in RetrievalOutcomes :
       Step(knowledge_search_node(st, ret), "router", NoReply, 0, ret.raised)

ToolExecutor ==
  /\ Fixed /\ node = "tool_executor"
  /\ \E res \in (IF ToolExecutes(st, tools)
                 THEN ToolOutcomes(PendingTask(st)) ELSE {ToolRaises}) :
       Step(tool_executor_node(st, tools, res), "router",
            IF ToolExecutorCallsLlm(st, tools) THEN LlmOk("mindmap") ELSE NoReply,
            IF ToolExecutes(st, tools) THEN 1 ELSE 0,
            ToolExecutes(st, tools) /\ res.raised)

Reflector ==
  /\ Fixed /\ node = "reflector"
  /\ Step(reflector_node(st), "synthesizer", NoReply, 0, FALSE)

Synthesizer ==
  /\ Fixed /\ node = "synthesizer"
  /\ \E resp \in SynthReplies :
       Step(synthesizer_node(st, resp), "END", resp, 0, FALSE)

\* the configuration of the node the walk of a custom agent is at
CurrentConfig ==
  LET m == NodeMap(graph.nodes)
  IN m[CHOOSE i \in 1..Len(m) : m[i].id = node]

\* one node of a custom agent
DynamicNode ==
  /\ ~Fixed /\ node \in NodeIds(graph.nodes)
  /\ LET cfg == CurrentConfig
         executes == cfg.type = "tool_executor" /\ DynamicToolExecutes(cfg.data, tools)
     IN \E resp \in (IF cfg.type \in LlmTypes THEN SynthReplies ELSE {NoReply}),
           ret \in (IF cfg.type = "knowledge_search"
                    THEN RetrievalOutcomes ELSE {RetrieveRaises}),
           res \in (IF executes THEN ToolOutcomes("weather") ELSE {ToolRaises}) :
          \E next \in Successors(graph.nodes, graph.edges, node,
                                 Merge(st, dynamic_node(cfg, st, tools, resp, ret, res))) :
            Step(dynamic_node(cfg, st, tools, resp, ret, res), next, resp,
                 IF executes THEN 1 ELSE 0,
                 \/ cfg.type = "knowledge_search" /\ ret.raised
                 \/ executes /\ res.raised)

Next ==
  \/ DynamicNode
  \/ Planner
  \/ Router
  \/ KnowledgeSearch
  \/ ToolExecutor
  \/ Reflector
  \/ Synthesizer

Spec == Init /\ [][Next]_vars

\* the runs run_agent starts, with its own max_iterations, for the queries
\* that ask for the weather and the registries that hold a weather tool
InitRun ==
  /\ \/ /\ graph = FixedGraph
        /\ \E q \in {q \in Queries : infer_tool_tasks(q) = <<"weather">>},
              kb \in BOOLEAN :
             st = InitialState(q, kb, RunMaxIterations)
        /\ node = "planner"
     \/ InitDynamic
  /\ tools \in {r \in Registries : FirstToolFor("weather", r, 1) # <<>>}
  /\ trace = <<>>
  /\ reply = NoReply
  /\ llmCalls = 0
  /\ execCalls = 0
  /\ raised = FALSE
  /\ OneRun

SpecRun == InitRun /\ [][Next]_vars

\* the runs for the queries that ask for a note, with the registries that
\* hold a note tool
InitNote ==
  /\ \/ /\ graph = FixedGraph
        /\ \E q \in {q \in Queries : "note" \in Range(infer_tool_tasks(q))},
              kb \in BOOLEAN, m \in 0..MaxIter :
             st = InitialState(q, kb, m)
        /\ node = "planner"
     \/ InitDynamic
  /\ tools \in {r \in Registries \cup NamedRegistries :
                  FirstToolFor("note", r, 1) # <<>>}
  /\ trace = <<>>
  /\ reply = NoReply
  /\ llmCalls = 0
  /\ execCalls = 0
  /\ raised = FALSE
  /\ OneRun

SpecNote == InitNote /\ [][Next]_vars

\* the sequences over a set, up to a length
SeqsUpTo(S, n) == UNION {[1..k -> S] : k \in 0..n}

\* the node entries handed to build_dynamic_graph: three nodes, and an entry
\* without a type
BuildNodes ==
  {NodeConfig(id, "planner", NoData) : id \in {"a", "b", "c"}}
    \cup {NodeConfig("a", "", NoData)}

\* the edge entries handed to build_dynamic_graph
BuildEdges == {Edge(s, t, "") : s \in {"a", "b", "c"}, t \in {"a", "b", "c"}}

\* build_dynamic_graph is about to be called with a node and an edge list
InitBuild ==
  /\ \E ns \in SeqsUpTo(BuildNodes, MaxNodes), es \in SeqsUpTo(BuildEdges, MaxEdges) :
       graph = [kind |-> "dynamic", nodes |-> ns, edges |-> es]
  /\ st = InitialState(<<>>, FALSE, DynMaxIterations)
  /\ node = "BUILD"
  /\ tools = <<>>
  /\ trace = <<>>
  /\ reply = NoReply
  /\ llmCalls = 0
  /\ execCalls = 0
  /\ raised = FALSE
  /\ OneRun

\* build_dynamic_graph: the walk is placed at the entry point it sets
BuildGraph ==
  /\ node = "BUILD"
  /\ node' = EntryPoint(graph.nodes, graph.edges)
  /\ UNCHANGED <<graph, st, tools, trace, reply, llmCalls, execCalls, raised,
                 call, saver, run>>

SpecBuild == InitBuild /\ [][BuildGraph]_vars


\* ------------------------------------------------------------ run history
\* how many times a node has been executed in the run
Runs(n) == Cardinality({i \in 1..Len(trace) : trace[i] = n})

\* the nodes create_agent_graph adds
Nodes ==
  {"planner", "router", "knowledge_search", "tool_executor", "reflector",
   "synthesizer"}

\* the run is over
Done == node = "END"

\* C1: every run of the fixed pipeline terminates: the router is executed
\* at most max_iterations + 1 times, the whole walk takes at most
\* 2 * max_iterations + 4 node executions (planner, the router passes, one
\* knowledge_search or tool_executor between two of them, reflector and
\* synthesizer), and a run that is not at END is at a node of the graph,
\* which can always be executed.
C1_Terminates ==
  Fixed =>
    /\ Runs("router") <= st.max_iterations + 1
    /\ Len(trace) <= 2 * st.max_iterations + 4
    /\ (~Done => node \in Nodes)

\* a run that looped through the router until the hard cap ended it
C1_Witness ==
  /\ Fixed
  /\ Done
  /\ st.max_iterations >= 3
  /\ Runs("router") = st.max_iterations + 1
  /\ Runs("tool_executor") + Runs("knowledge_search") = st.max_iterations


\* C2: current_step never decreases, each router pass adds exactly 1 to it,
\* and it is at most max_iterations + 1 when the router returns.
C2_StepMonotone ==
  [][Fixed =>
     /\ st'.current_step >= st.current_step
     /\ (node = "router" =>
           /\ st'.current_step = st.current_step + 1
           /\ st'.current_step <= st.max_iterations + 1)]_vars

\* the router has run up to the cap, after the planner reset the counter
C2_Witness ==
  /\ Fixed
  /\ st.max_iterations >= 2
  /\ Runs("router") = st.max_iterations + 1
  /\ st.current_step = st.max_iterations + 1

\* C3: a router entered with current_step >= max_iterations returns
\* synthesize and does not call the model; with max_iterations = 3 this is
\* the 4th router call of the run.
C3_HardCap ==
  [][Fixed /\ node = "router" =>
       /\ (st.current_step >= st.max_iterations =>
             /\ st'.next_action = "synthesize"
             /\ reply' = NoReply
             /\ llmCalls' = llmCalls)
       /\ (st.max_iterations = 3 /\ Runs("router") = 3 =>
             st'.next_action = "synthesize")]_vars

\* the 4th router call of a run with max_iterations = 3 has returned
\* synthesize although the knowledge base is requested and a task is pending
C3_Witness ==
  /\ Fixed
  /\ st.max_iterations = 3
  /\ Runs("router") = 4
  /\ node = "reflector"
  /\ st.next_action = "synthesize"
  /\ st.use_knowledge_base
  /\ should_call_tool(st)

AnsweredSearch == reply.kind = "ok" /\ StripUpper(reply.content) = "A"

\* C5: once retrieved_contexts is non-empty it stays so, and no router pass
\* made from then on returns search_kb; when the model answers search_kb
\* the decision is tool_executor if a task is pending, else synthesize.
C5_NoSecondSearch ==
  [][Fixed /\ Len(st.retrieved_contexts) > 0 =>
       /\ Len(st'.retrieved_contexts) > 0
       /\ (node = "router" =>
             /\ st'.next_action # "search_kb"
             /\ (AnsweredSearch' =>
                   st'.next_action =
                     IF should_call_tool(st) THEN "tool_executor" ELSE "synthesize"))]_vars

\* the model asked for a second search with passages retrieved and a task
\* pending, and the router sent the run to the tool executor
C5_Witness ==
  /\ Fixed
  /\ Len(st.retrieved_contexts) > 0
  /\ trace[Len(trace)] = "router"
  /\ AnsweredSearch
  /\ st.next_action = "tool_executor"
  /\ node = "tool_executor"

\* the task categories recorded as executed or skipped, in one list
RecordedTasks ==
  [i \in 1..Len(st.tool_calls_made) |-> st.tool_calls_made[i].task]
  \o [i \in 1..Len(st.skipped_tasks) |-> st.skipped_tasks[i].task]

\* C6: tool_calls_made and skipped_tasks together hold at most one entry
\* per task category.
C6_OneEntryPerTask ==
  \A i, j \in 1..Len(RecordedTasks) :
    i # j => RecordedTasks[i] # RecordedTasks[j]

\* tool_executor has run again after every inferred task was recorded,
\* some executed and some skipped
C6_Witness ==
  /\ Fixed
  /\ Len(st.tool_calls_made) >= 1
  /\ Len(st.skipped_tasks) >= 1
  /\ PendingTask(st) = Null
  /\ Runs("tool_executor") > Len(RecordedTasks)

\* C7 as stated: execute_tool is called at most 5 times in a run and
\* tool_calls_made never has more than 5 entries.
C7_ToolCallCap_AsClaimed ==
  /\ execCalls <= MAX_TOOL_CALLS
  /\ Len(st.tool_calls_made) <= MAX_TOOL_CALLS

\* C8: is_complete is true exactly when final_answer is set, in the runs
\* of the built-in graph and of the custom agents.
C8_CompleteIffAnswer == st.is_complete <=> st.final_answer # Null

\* a custom agent has run its tool and then its synthesizer
C8_Witness ==
  /\ ~Fixed
  /\ st.is_complete
  /\ st.final_answer # Null
  /\ Len(st.tool_results) > 0

\* the node to execute is a synthesizer, of the built-in graph or of a
\* custom agent
AtSynthesizer ==
  \/ Fixed /\ node = "synthesizer"
  \/ ~Fixed /\ node \in NodeIds(graph.nodes) /\ CurrentConfig.type = "synthesizer"

\* C9: whatever the state and the outcome of the model call, synthesizer
\* returns an update with is_complete = true and a non-null final_answer,
\* and the walk moves on from it (to END in the built-in graph).
C9_SynthesizerTotal ==
  [][AtSynthesizer =>
       /\ st'.is_complete
       /\ st'.final_answer # Null
       /\ trace' = Append(trace, node)
       /\ (Fixed => node' = "END")]_vars

\* synthesizer has run with passages, tool results and skipped tasks in the
\* state and a failed model call
C9_Witness ==
  /\ Fixed
  /\ Done
  /\ reply.kind # "ok"
  /\ Len(st.retrieved_contexts) > 0
  /\ Len(st.tool_results) > 0
  /\ Len(st.skipped_tasks) > 0
  /\ st.is_complete

\* the executed nodes followed by the node to execute next
Walk == Append(trace, node)

Failed(resp) == resp.kind \in {"http_error", "exception"}

\* C11: a router whose model call fails at a step >= 1 below the cap decides
\* by the heuristic: search_kb if the knowledge base is requested and not
\* yet searched, else tool_executor if a task is pending, else synthesize.
C11_FallbackOnFailure_AsClaimed ==
  [][Fixed /\ node = "router" /\ Failed(reply')
     /\ st.current_step >= 1 /\ st.current_step < st.max_iterations =>
       st'.next_action =
         (IF st.use_knowledge_base /\ ~KbAlreadySearched(st) THEN "search_kb"
          ELSE IF should_call_tool(st) THEN "tool_executor"
          ELSE "synthesize")]_vars

\* ------------------------------------------------------------------- C12
\* the except branch of synthesizer_node: the answer assembled from the
\* sections of the tool results by task, else from the first passage, else
\* the insufficient-information message
FallbackAnswer(state) ==
  IF \E i \in 1..Len(state.tool_results) : state.tool_results[i].task \in Range(TASK_ORDER)
    THEN "fallback_sections"
  ELSE IF Len(state.retrieved_contexts) > 0 THEN "fallback_first_passage"
  ELSE "fallback_insufficient"

\* C12: when the model call of synthesizer fails, final_answer is the
\* fallback answer assembled from the state and not the text returned by
\* the failed call.
C12_FallbackAnswer_AsClaimed ==
  [][AtSynthesizer /\ Failed(reply') =>
       /\ st'.final_answer = FallbackAnswer(st)
       /\ st'.final_answer \notin {ApiFailText, LlmFailText}]_vars

\* ------------------------------------------------------------------- C13
\* faulty variant: a run that recorded an error is reported as failed
run_agent_result_FailsOnError(state) ==
  [success |-> state.error = Null, final_answer |-> state.final_answer,
   error |-> state.error]

\* the result run_agent returns for the final state of the walk
run_agent_result(state) ==
  [success |-> TRUE, final_answer |-> state.final_answer, error |-> state.error]

\* the last observation of the state is one of a failure
FailureObserved(state) ==
  /\ Len(state.observations) > 0
  /\ state.observations[Len(state.observations)].src \in {"kb_failed", "tool_failed"}

\* a retrieval or a tool execution has raised earlier in the run
EverRaised == st.error \in {"retrieve_failed", "tool_failed"}

NoActiveToolFor(task) ==
  ~\E i \in 1..Len(tools) : tools[i].is_active /\ map_tool_to_task(tools[i]) = task

\* the skipped_tasks of the state hold an entry with that reason
SkippedFor(reason) ==
  \E i \in 1..Len(st.skipped_tasks) : st.skipped_tasks[i].reason = reason

\* C14: when the first pending category has no active tool, tool_executor
\* executes nothing, appends one {task, reason} entry to skipped_tasks and
\* one observation, leaves tool_calls_made and tool_results as they are and
\* hands over to router; the run still ends with an answer.
C14_ToolNotFoundSkips ==
  [][Fixed =>
       /\ (/\ node = "tool_executor"
           /\ PendingTask(st) # Null
           /\ NoActiveToolFor(PendingTask(st))
           => /\ execCalls' = execCalls
              /\ st'.skipped_tasks =
                   Append(st.skipped_tasks,
                          [task |-> PendingTask(st), reason |-> "tool_not_found"])
              /\ Len(st'.observations) = Len(st.observations) + 1
              /\ st'.tool_calls_made = st.tool_calls_made
              /\ st'.tool_results = st.tool_results
              /\ st'.error = st.error
              /\ node' = "router")
       /\ (SkippedFor("tool_not_found") /\ ~Done => node \in Nodes)
       /\ (SkippedFor("tool_not_found") /\ node' = "END" =>
             st'.is_complete /\ st'.final_answer # Null)]_vars

\* a run that skipped a category for want of a tool, and executed a tool
\* for another one, has ended with an answer
C14_Witness ==
  /\ Fixed
  /\ Done
  /\ SkippedFor("tool_not_found")
  /\ Len(st.tool_calls_made) >= 1
  /\ st.final_answer # Null

\* ------------------------------------------------------------------- C15
\* C15: a tool_executor step makes at most one execute_tool call; when the
\* call returns, it appends one entry to tool_calls_made, one entry of the
\* same category to tool_results, one observation and one thought; so the
\* two lists always have the same length and the same category by index.
C15_OneCallPerInvocation ==
  [][Fixed =>
       /\ execCalls' <= execCalls + 1
       /\ (node # "tool_executor" =>
             /\ execCalls' = execCalls
             /\ st'.tool_calls_made = st.tool_calls_made
             /\ st'.tool_results = st.tool_results)
       /\ (node = "tool_executor" /\ execCalls' = execCalls + 1 /\ ~raised' =>
             /\ Len(st'.tool_calls_made) = Len(st.tool_calls_made) + 1
             /\ SubSeq(st'.tool_calls_made, 1, Len(st.tool_calls_made)) = st.tool_calls_made
             /\ Len(st'.tool_results) = Len(st.tool_results) + 1
             /\ SubSeq(st'.tool_results, 1, Len(st.tool_results)) = st.tool_results
             /\ st'.tool_calls_made[Len(st'.tool_calls_made)].task = PendingTask(st)
             /\ st'.tool_results[Len(st'.tool_results)].task = PendingTask(st)
             /\ Len(st'.observations) = Len(st.observations) + 1
             /\ Len(st'.thoughts) = Len(st.thoughts) + 1)
       /\ (node = "tool_executor" /\ (execCalls' = execCalls \/ raised') =>
             /\ st'.tool_calls_made = st.tool_calls_made
             /\ st'.tool_results = st.tool_results)
       /\ Len(st'.tool_calls_made) = Len(st'.tool_results)
       /\ \A i \in 1..Len(st'.tool_calls_made) :
            st'.tool_calls_made[i].task = st'.tool_results[i].task]_vars

\* two tools have been executed in a run, one of them after a failed attempt
C15_Witness ==
  /\ Fixed
  /\ Len(st.tool_calls_made) = 2
  /\ Len(st.tool_results) = 2
  /\ execCalls = 3

\* ------------------------------------------------------------------- C16
\* tool_results hold a result of the weather category whose text has a rain
\* keyword
RainyWeatherResult ==
  \E i \in 1..Len(st.tool_results) :
    /\ st.tool_results[i].task = "weather"
    /\ detect_rain_in_text(st.tool_results[i].output)

\* C16: a note tool is executed only when tool_results already hold a
\* weather result whose text has a rain keyword; otherwise the note task is
\* recorded in skipped_tasks with a reason and nothing is executed.
C16_NoteNeedsRain_AsClaimed ==
  [][Fixed /\ node = "tool_executor" /\ PendingTask(st) = "note"
     /\ ~NoActiveToolFor("note") /\ ~RainyWeatherResult =>
       /\ execCalls' = execCalls
       /\ st'.tool_calls_made = st.tool_calls_made
       /\ Len(st'.skipped_tasks) = Len(st.skipped_tasks) + 1
       /\ st'.skipped_tasks[Len(st'.skipped_tasks)].task = "note"]_vars

\* ------------------------------------------------------------------- C17
\* C17: for a query inferring weather and note, with only a weather tool
\* registered, once no category is pending and the weather output has no
\* rain keyword, the run ends with note in skipped_tasks under the non-rain
\* reason and with only the weather entry in tool_calls_made.
C17_NoRainSkipsNote_AsClaimed ==
  (/\ Fixed
   /\ Done
   /\ infer_tool_tasks(st.user_query) = <<"weather", "note">>
   /\ tools = <<WeatherTool>>
   /\ PendingTask(st) = Null
   /\ Len(st.tool_results) = 1
   /\ ~detect_rain_in_text(st.tool_results[1].output))
  => /\ Len(st.tool_calls_made) = 1
     /\ st.tool_calls_made[1].task = "weather"
     /\ Len(st.skipped_tasks) = 1
     /\ st.skipped_tasks[1] = [task |-> "note", reason |-> "no_rain"]

\* ------------------------------------------------------------------- C18
\* the query asking to search for the latest progress of DeepSeek
DeepSeekQuery == <<"bangwo", "sousuo", "deepseek", "zuixinjinzhan">>

\* C18: for the DeepSeek query with a web_search tool registered, task
\* inference returns exactly <<search>>, the search text is the query
\* without its known prefix, and once no category is pending after
\* tool_executor ran, tool_calls_made holds exactly one entry, for search,
\* with that text.
C18_SearchScenario ==
  /\ infer_tool_tasks(DeepSeekQuery) = <<"search">>
  /\ extract_search_query(DeepSeekQuery) = <<"deepseek", "zuixinjinzhan">>
  /\ (/\ Fixed
      /\ st.user_query = DeepSeekQuery
      /\ ~NoActiveToolFor("search")
      => /\ Len(st.tool_calls_made) <= 1
         /\ (Runs("tool_executor") >= 1 /\ PendingTask(st) = Null =>
               /\ Len(st.tool_calls_made) = 1
               /\ st.tool_calls_made[1].task = "search"
               /\ st.tool_calls_made[1].arguments =
                    [query |-> <<"deepseek", "zuixinjinzhan">>]))

\* the run for the DeepSeek query has ended after a search that succeeded
\* on its second attempt
C18_Witness ==
  /\ Fixed
  /\ Done
  /\ st.user_query = DeepSeekQuery
  /\ Len(st.tool_calls_made) = 1
  /\ st.tool_calls_made[1].task = "search"
  /\ execCalls = 2

\* ------------------------------------------------------------------- C19
\* the place of a category in the fixed order
Position(task) == CHOOSE i \in 1..Len(TASK_ORDER) : TASK_ORDER[i] = task

\* the categories inferred from the query that come before the task in the
\* fixed order and are neither executed nor skipped in the state
PendingBefore(state, task) ==
  {u \in Range(infer_tool_tasks(state.user_query)) :
     /\ Position(u) < Position(task)
     /\ u \notin TasksOf(state.tool_calls_made) \cup TasksOf(state.skipped_tasks)}

\* C19: tool_executor acts on the first pending category of the order
\* weather, search, diagram, note: it neither executes nor skips a category
\* while an inferred category before it is pending, so tool_calls_made
\* lists the categories in that order.
C19_FixedOrder ==
  [][Fixed /\ node = "tool_executor" =>
       /\ (execCalls' = execCalls + 1 => PendingBefore(st, PendingTask(st)) = {})
       /\ (Len(st'.tool_calls_made) > Len(st.tool_calls_made) =>
             PendingBefore(st, st'.tool_calls_made[Len(st'.tool_calls_made)].task) = {})
       /\ (Len(st'.skipped_tasks) > Len(st.skipped_tasks) =>
             PendingBefore(st, st'.skipped_tasks[Len(st'.skipped_tasks)].task) = {})
       /\ \A i, j \in 1..Len(st'.tool_calls_made) :
            i < j => Position(st'.tool_calls_made[i].task)
                       < Position(st'.tool_calls_made[j].task)]_vars

\* weather, search, diagram and note have been executed in a run
C19_Witness ==
  /\ Fixed
  /\ Len(st.tool_calls_made) = 4
  /\ st.tool_calls_made[2].task = "search"
  /\ st.tool_calls_made[3].task = "diagram"
  /\ st.tool_calls_made[4].task = "note"

\* ------------------------------------------------------------------- C20
\* the ids of the node entries that have an id and a type, in input order
RegisteredIds ==
  LET kept == SelectSeq(graph.nodes, LAMBDA n : n.id # "" /\ n.type # "")
  IN [i \in 1..Len(kept) |-> kept[i].id]

\* the ids that are the target of an edge
EdgeTargets == {graph.edges[i].target : i \in 1..Len(graph.edges)}

\* C20: build_dynamic_graph sets the entry point to the first node id, in
\* input order, that is the target of no edge, and to the first node when
\* there are no edges; for the nodes a, b and the edge a -> b it is a.
C20_EntryPoint ==
  node # "BUILD" /\ ~Fixed /\ trace = <<>> =>
    /\ \A i \in 1..Len(RegisteredIds) :
         (/\ RegisteredIds[i] \notin EdgeTargets
          /\ \A j \in 1..(i - 1) : RegisteredIds[j] \in EdgeTargets)
         => node = RegisteredIds[i]
    /\ (Len(graph.edges) = 0 /\ Len(RegisteredIds) > 0 => node = RegisteredIds[1])
    /\ (/\ Len(graph.nodes) = 2
        /\ graph.nodes[1].id = "a"
        /\ graph.nodes[2].id = "b"
        /\ graph.edges = <<Edge("a", "b", "")>>
        => node = "a")

\* the graph was built for nodes a, b, c with an edge into a: b is the
\* entry point
C20_Witness ==
  /\ node = "b"
  /\ trace = <<>>
  /\ RegisteredIds = <<"a", "b", "c">>
  /\ graph.edges = <<Edge("c", "a", "")>>

\* ------------------------------------------------------------------- C21
\* the ids that are the source of an edge of the input
EdgeSources == {graph.edges[i].source : i \in 1..Len(graph.edges)}

\* the ids of the registered nodes
RegisteredSet == {RegisteredIds[i] : i \in 1..Len(RegisteredIds)}

\* C21: in the graph build_dynamic_graph produces, a registered node has
\* the implicit unconditional edge to END exactly when it is the source of
\* no edge; for the nodes a, b and the edge a -> b the graph has the edge
\* a -> b and the implicit edge b -> END.
C21_TerminalWiring ==
  node # "BUILD" /\ ~Fixed /\ trace = <<>> /\ tools = <<>> =>
    /\ \A id \in RegisteredSet :
         END \in Successors(graph.nodes, graph.edges, id, st) <=> id \notin EdgeSources
    /\ (RegisteredIds = <<"a", "b">> /\ graph.edges = <<Edge("a", "b", "")>> =>
          /\ Successors(graph.nodes, graph.edges, "a", st) = {"b"}
          /\ Successors(graph.nodes, graph.edges, "b", st) = {END})

\* the graph was built for the nodes a, b and two edges, a -> b and one
\* from b to a node that is not registered: b has no edge to END
C21_Witness ==
  /\ node = "a"
  /\ trace = <<>>
  /\ tools = <<>>
  /\ RegisteredIds = <<"a", "b">>
  /\ graph.edges = <<Edge("a", "b", ""), Edge("b", "c", "")>>
  /\ Successors(graph.nodes, graph.edges, "b", st) = {}

\* ------------------------------------------------------------------- C22
\* C22: in a custom agent, after the source of a conditional edge has run,
\* the walk moves, for condition_true, to the target if next_action is
\* continue in the merged state and to END otherwise, and for always or any
\* other condition to the target.
C22_ConditionalEdges ==
  [][~Fixed /\ node \in NodeIds(graph.nodes) =>
       \A i \in 1..Len(graph.edges) :
         (/\ graph.edges[i].source = node
          /\ graph.edges[i].target \in NodeIds(graph.nodes)
          /\ graph.edges[i].condition # "")
         => node' = IF graph.edges[i].condition = "condition_true"
                    THEN (IF st'.next_action = "continue"
                          THEN graph.edges[i].target ELSE END)
                    ELSE graph.edges[i].target]_vars

\* a custom agent has passed a condition_true edge on continue, an edge with
\* another condition and a second condition_true edge
C22_Witness ==
  /\ ~Fixed
  /\ trace = <<"a", "b", "c", "d", "e">>
  /\ node = "f"
  /\ st.next_action = "continue"

\* ------------------------------------------------------------------- C23
\* the edge entries build_dynamic_graph does not skip: both endpoints are
\* registered nodes
KeptEdges ==
  SelectSeq(graph.edges, LAMBDA e : e.source \in RegisteredSet /\ e.target \in RegisteredSet)

\* C23 as the specification states it: the graph build_dynamic_graph
\* produces (entry point, edges and implicit edges to END of every
\* registered node) equals the graph it produces from the same input with
\* the entries without id or type and the edges with an unregistered
\* endpoint removed.
C23_InvalidEntriesAbsent_AsClaimed ==
  node # "BUILD" /\ ~Fixed /\ trace = <<>> /\ tools = <<>> =>
    /\ node = EntryPoint(NodeMap(graph.nodes), KeptEdges)
    /\ \A id \in RegisteredSet :
         Successors(graph.nodes, graph.edges, id, st)
           = Successors(NodeMap(graph.nodes), KeptEdges, id, st)

\* ------------------------------------------------------------------- C24
\* the longest walk of a cyclic custom agent that is followed
MaxSteps == 8

\* custom agents with a cycle through a loop node: the loop node a leads
\* into the body b on continue and to END otherwise, the body leads back
LoopAgents ==
  { [nodes |-> <<NodeConfig("a", "loop",
                            [NoData EXCEPT !.maxIterations = n, !.condition = c]),
                 NodeConfig("b", body, NodeData("t_weather", "always", "", "user_query"))>>,
     edges |-> <<Edge("a", "b", "condition_true"), Edge("b", "a", "")>>] :
    n \in 0..2, c \in {"", "rain"}, body \in {"tool_executor", "delay"} }

\* execute_custom_agent for a cyclic agent
InitLoop ==
  /\ \E a \in LoopAgents, q \in {<<"beijing", "tianqi">>} :
       /\ graph = [kind |-> "dynamic", nodes |-> a.nodes, edges |-> a.edges]
       /\ st = InitialState(q, FALSE, DynMaxIterations)
       /\ node = EntryPoint(a.nodes, a.edges)
  /\ tools \in Registries
  /\ trace = <<>>
  /\ reply = NoReply
  /\ llmCalls = 0
  /\ execCalls = 0
  /\ raised = FALSE
  /\ OneRun

\* one node of a cyclic custom agent, followed for MaxSteps nodes
LoopWalk ==
  /\ Len(trace) < MaxSteps
  /\ DynamicNode

SpecLoop == InitLoop /\ [][LoopWalk]_vars

\* how often the node id has run
Visits(id) == Cardinality({i \in 1..Len(trace) : trace[i] = id})

\* C24 as the specification states it: in a cycle through a loop node with
\* iteration cap N, left only when the loop node emits break, the loop node
\* emits continue at most N times and then break: it runs at most N + 1
\* times.
C24_LoopCap_AsClaimed ==
  ~Fixed /\ Len(graph.nodes) = 2 /\ graph.nodes[1].type = "loop" =>
    Visits("a") <= graph.nodes[1].data.maxIterations + 1

\* ------------------------------------------------------------------- C25
\* C25 as the specification states it: a node of a custom agent whose type
\* is router performs the state update of router_node (next_action set,
\* current_step incremented by 1), and one whose type is reflector performs
\* the state update of reflector_node (quality_score set).
C25_RouterReflectorTypes_AsClaimed ==
  [][~Fixed /\ node \in NodeIds(graph.nodes) =>
       /\ CurrentConfig.type = "router" =>
            /\ st'.current_step = st.current_step + 1
            /\ \E resp \in RouterReplies \cup {NoReply} :
                 st' = Merge(st, router_node(st, resp))
       /\ CurrentConfig.type = "reflector" =>
            st' = Merge(st, reflector_node(st))]_vars

\* ------------------------------------------------------------------- C26
\* C26: a node of a custom agent whose type has no handler appends one
\* warning thought and leaves every other state field unchanged, and the
\* walk goes on along the node's outgoing edge.
C26_UnknownTypeNoOp ==
  [][~Fixed /\ node \in NodeIds(graph.nodes) /\ CurrentConfig.type \notin KnownTypes =>
       /\ st' = [st EXCEPT !.thoughts = Append(@, "unknown_type")]
       /\ llmCalls' = llmCalls /\ execCalls' = execCalls
       /\ node' \in Successors(graph.nodes, graph.edges, node, st')
       /\ \A i \in 1..Len(graph.edges) :
            (/\ graph.edges[i].source = node
             /\ graph.edges[i].target \in NodeIds(graph.nodes)
             /\ graph.edges[i].condition # "condition_true")
            => node' = graph.edges[i].target]_vars

\* a node of type router, for which dynamic_node has no handler, has run
\* first in a custom agent and the walk is at its successor
C26_Witness ==
  /\ ~Fixed
  /\ trace = <<"a">>
  /\ graph.nodes[1].type = "router"
  /\ st.thoughts = <<"unknown_type">>
  /\ st.next_action = Null
  /\ node = "b"

\* ------------------------------------------------------------------- C27
\* C27 as the specification states it: in the graph build_dynamic_graph
\* produces, after a node has run exactly one successor node or END is
\* selected, so that no two nodes run at the same time.
C27_OneSuccessor_AsClaimed ==
  node # "BUILD" /\ ~Fixed /\ trace = <<>> /\ tools = <<>> =>
    \A id \in RegisteredSet :
      Cardinality(Successors(graph.nodes, graph.edges, id, st)) = 1

\* ------------------------------------------------------------------- C28
\* the ids of two runs served at the same time
RunIds == {1, 2}

\* faulty variant: every run keeps its state under the same key
CheckpointKey_Shared(r) == 1

\* the key under which the state of run r is kept: run_agent creates a
\* MemorySaver and a uuid4 thread id of its own for every run
CheckpointKey(r) == r

\* the values that belong to the run that is executing
RunLocals ==
  [graph |-> graph, st |-> st, node |-> node, tools |-> tools, trace |-> trace,
   reply |-> reply, llmCalls |-> llmCalls, execCalls |-> execCalls,
   raised |-> raised, call |-> call]

\* the values of a run that has just been started
StartOf(g, state, entry, tool_records) ==
  [graph |-> g, st |-> state, node |-> entry, tools |-> tool_records,
   trace |-> <<>>, reply |-> NoReply, llmCalls |-> 0, execCalls |-> 0,
   raised |-> FALSE, call |-> RunCall]

\* the runs the first caller starts: execute_custom_agent for two agents
\* and run_agent for a weather query
FirstStarts ==
  {StartOf([kind |-> "dynamic", nodes |-> a.nodes, edges |-> a.edges],
           InitialState(<<"beijing", "tianqi">>,
                        \E i \in 1..Len(a.nodes) : a.nodes[i].type = "knowledge_search",
                        DynMaxIterations),
           EntryPoint(a.nodes, a.edges), <<WeatherTool>>) :
     a \in {a \in CustomAgents : Len(a.nodes) <= 4}}
  \cup {StartOf(FixedGraph, InitialState(<<"beijing", "tianqi">>, FALSE, 1),
                "planner", <<WeatherTool>>)}

\* the runs the second caller starts: run_agent for another weather query,
\* with or without the knowledge base
SecondStarts ==
  {StartOf(FixedGraph, InitialState(<<"shanghai", "today">>, kb, 1),
           "planner", <<WeatherTool>>) : kb \in BOOLEAN}

\* two runs have been started; run 1 executes first
InitPair ==
  \E l1 \in FirstStarts, l2 \in SecondStarts :
    /\ graph = l1.graph /\ st = l1.st /\ node = l1.node /\ tools = l1.tools
    /\ trace = l1.trace /\ reply = l1.reply /\ llmCalls = l1.llmCalls
    /\ execCalls = l1.execCalls /\ raised = l1.raised /\ call = l1.call
    /\ run = 1
    /\ saver = (CheckpointKey(2) :> l2) @@ (CheckpointKey(1) :> l1)

\* the event loop suspends the executing run at an await and resumes the
\* other one
Switch ==
  \E r \in RunIds \ {run} :
    /\ saver' = [saver EXCEPT ![CheckpointKey(run)] = RunLocals]
    /\ run' = r
    /\ graph' = saver'[CheckpointKey(r)].graph
    /\ st' = saver'[CheckpointKey(r)].st
    /\ node' = saver'[CheckpointKey(r)].node
    /\ tools' = saver'[CheckpointKey(r)].tools
    /\ trace' = saver'[CheckpointKey(r)].trace
    /\ reply' = saver'[CheckpointKey(r)].reply
    /\ llmCalls' = saver'[CheckpointKey(r)].llmCalls
    /\ execCalls' = saver'[CheckpointKey(r)].execCalls
    /\ raised' = saver'[CheckpointKey(r)].raised
    /\ call' = saver'[CheckpointKey(r)].call

NextPair ==
  \/ Switch
  \/ Next

SpecPair == InitPair /\ [][NextPair]_vars

\* the values of run r: those in use if it executes, its checkpoint if not
LocalsOf(r) == IF r = run THEN RunLocals ELSE saver[CheckpointKey(r)]

\* C28: two runs with distinct ids whose steps interleave never affect
\* each other: the values of a run change only by a step of that run, which
\* depends on these values and the outcomes of its external calls alone, so
\* each run reaches the state it reaches when executed alone.
C28_RunsIsolated ==
  [][\A r \in RunIds :
       \/ r = run /\ r = run' /\ Next
       \/ LocalsOf(r)' = LocalsOf(r)]_vars

\* both runs have ended after their steps interleaved: run 2 executed
\* last, and at the end each run holds the query it was started with
C28_Witness ==
  /\ run = 2
  /\ node = "END"
  /\ Fixed
  /\ st.user_query = <<"shanghai", "today">>
  /\ saver[CheckpointKey(1)].node = "END"
  /\ ~(saver[CheckpointKey(1)].graph.kind = "fixed")
  /\ saver[CheckpointKey(1)].st.user_query = <<"beijing", "tianqi">>
  /\ Len(saver[CheckpointKey(1)].trace) = 4

\* ------------------------------------------------------------------- C29
\* final_answer of stream_custom_agent: the last non-empty final_answer a
\* node output carried, Null if there was none
StreamFinalAnswer(evs) ==
  LET hits == SelectSeq(evs, LAMBDA e :
                 /\ e.event = "node_output"
                 /\ "final_answer" \in DOMAIN e.data
                 /\ e.data.final_answer \notin {Null, ""})
  IN IF Len(hits) = 0 THEN Null ELSE hits[Len(hits)].data.final_answer

\* the events the stream functions yield after the last node: stream_agent
\* yields completed, stream_custom_agent yields final_answer first if a
\* node output carried one
ClosingEvents(evs) ==
  (IF ~Fixed /\ StreamFinalAnswer(evs) # Null
   THEN <<[event |-> "final_answer", content |-> StreamFinalAnswer(evs)]>>
   ELSE <<>>)
  \o <<[event |-> "completed"]>>

\* stream_agent or stream_custom_agent is called
InitStream ==
  /\ \/ /\ graph = FixedGraph
        /\ \E kb \in BOOLEAN :
             st = InitialState(<<"beijing", "tianqi">>, kb, RunMaxIterations)
        /\ node = "planner"
     \/ InitDynamic
  /\ tools \in {r \in Registries : FirstToolFor("weather", r, 1) # <<>>}
  /\ trace = <<>>
  /\ reply = NoReply
  /\ llmCalls = 0
  /\ execCalls = 0
  /\ raised = FALSE
  /\ call = StreamCall
  /\ saver = <<>>
  /\ run = 1

\* the walk of a stream has ended: the closing events are yielded
StreamEnd ==
  /\ call.api = "stream"
  /\ node = "END"
  /\ call' = [call EXCEPT !.events = @ \o ClosingEvents(@)]
  /\ node' = "CLOSED"
  /\ UNCHANGED <<graph, st, tools, trace, reply, llmCalls, execCalls, raised,
                 saver, run>>

NextStream ==
  \/ StreamEnd
  \/ Next

SpecStream == InitStream /\ [][NextStream]_vars

\* C29 as the specification states it: a stream that does not abort yields
\* exactly one node_output event per completed node, in execution order,
\* then exactly one completed event, and no event of another kind, for the
\* built-in graph and for custom agents alike.
C29_StreamEvents_AsClaimed ==
  call.api = "stream" /\ node = "CLOSED" =>
    /\ Len(call.events) = Len(trace) + 1
    /\ \A i \in 1..Len(trace) :
         /\ call.events[i].event = "node_output"
         /\ call.events[i].node = trace[i]
    /\ call.events[Len(call.events)].event = "completed"

\* ------------------------------------------------------------------- C30
\* what execute_custom_agent returns for the final state of the walk
execute_custom_agent_result(state) ==
  [success |-> TRUE, final_answer |-> state.final_answer]

\* what run_agent returns when app.ainvoke raises
run_agent_failure ==
  [success |-> FALSE, final_answer |-> "apology_with_message", error |-> "message"]

\* what execute_custom_agent returns when its try block raises
execute_custom_agent_failure ==
  [success |-> FALSE, error |-> "message", final_answer |-> "failed_with_message"]

\* run_agent or execute_custom_agent is called
InitResult ==
  /\ \/ /\ graph = FixedGraph
        /\ \E kb \in BOOLEAN :
             st = InitialState(<<"beijing", "tianqi">>, kb, RunMaxIterations)
        /\ node = "planner"
     \/ InitDynamic
  /\ tools = <<WeatherTool>>
  /\ trace = <<>>
  /\ reply = NoReply
  /\ llmCalls = 0
  /\ execCalls = 0
  /\ raised = FALSE
  /\ OneRun

\* an exception leaves app.ainvoke: the walk is aborted
Abort ==
  /\ call.api = "run"
  /\ IF Fixed THEN node \in Nodes ELSE node \in NodeIds(graph.nodes)
  /\ node' = "EXCEPTION"
  /\ UNCHANGED <<graph, st, tools, trace, reply, llmCalls, execCalls, raised,
                 call, saver, run>>

\* run_agent or execute_custom_agent returns: the result of the final state
\* after the walk, the result of the except branch after an exception
Return ==
  /\ call.api = "run"
  /\ call.result = <<>>
  /\ node \in {"END", "EXCEPTION"}
  /\ call' = [call EXCEPT !.result =
                <<IF node = "END"
                  THEN (IF Fixed THEN run_agent_result(st)
                        ELSE execute_custom_agent_result(st))
                  ELSE (IF Fixed THEN run_agent_failure
                        ELSE execute_custom_agent_failure)>>]
  /\ UNCHANGED <<graph, st, node, tools, trace, reply, llmCalls, execCalls,
                 raised, saver, run>>

NextResult ==
  \/ Abort
  \/ Return
  \/ Next

SpecResult == InitResult /\ [][NextResult]_vars

\* C30: run_agent and execute_custom_agent always return: after the walk
\* has ended or was aborted by an exception the next step is the return;
\* the result has success = false, with an error message and a final
\* answer, exactly when the walk was aborted, and success = true otherwise,
\* also when a model call, a tool or the retrieval failed inside a node.
C30_RunResult ==
  [][/\ (node \in {"END", "EXCEPTION"} /\ call.result = <<>> => call'.result # <<>>)
     /\ (trace' # trace /\ (raised' \/ reply'.kind \in {"http_error", "exception"})
           => node' # "EXCEPTION")
     /\ (call'.result # <<>> =>
           /\ node' \in {"END", "EXCEPTION"}
           /\ call'.result[1].success <=> node' = "END"
           /\ (~call'.result[1].success =>
                 /\ call'.result[1].error # Null
                 /\ call'.result[1].final_answer # Null))]_vars

\* run_agent has returned the failure result after its walk was aborted by
\* an exception following a tool execution that raised inside its node
C30_Witness ==
  /\ Fixed
  /\ node = "EXCEPTION"
  /\ call.result = <<run_agent_failure>>
  /\ st.error = "tool_failed"
  /\ Len(trace) >= 3

\* ------------------------------------------------------------------- C31
\* the sequence s is a prefix of the sequence t
IsPrefix(s, t) == Len(s) <= Len(t) /\ SubSeq(t, 1, Len(s)) = s

\* C31: across every step of a run thoughts, observations, tool_calls_made,
\* tool_results and skipped_tasks are append-only: the value of each list
\* before the step is a prefix of its value after the step.
C31_AppendOnly ==
  [][/\ IsPrefix(st.thoughts, st'.thoughts)
     /\ IsPrefix(st.observations, st'.observations)
     /\ IsPrefix(st.tool_calls_made, st'.tool_calls_made)
     /\ IsPrefix(st.tool_results, st'.tool_results)
     /\ IsPrefix(st.skipped_tasks, st'.skipped_tasks)]_vars

\* a run has ended in which every one of the five lists has grown, the
\* tool lists over two tool_executor passes
C31_Witness ==
  /\ Fixed
  /\ Done
  /\ Len(st.tool_calls_made) >= 2
  /\ Len(st.tool_results) >= 2
  /\ Len(st.skipped_tasks) >= 1
  /\ Len(st.observations) >= 3
  /\ Len(st.thoughts) >= 5

\* ------------------------------------------------------------------- C32
\* the fields of the state other than those of the set keys keep their value
\* over the step
KeepsAllBut(keys) == \A k \in DOMAIN st \ keys : st'[k] = st[k]

\* C32: a field whose key is absent from a node's update keeps its value:
\* router changes only next_action, thoughts and current_step, and reflector
\* changes none of tool_calls_made, tool_results, skipped_tasks,
\* retrieved_contexts, final_answer and is_complete.
C32_FrameOfUpdates ==
  [][Fixed =>
       /\ (node = "router" => KeepsAllBut({"next_action", "thoughts", "current_step"}))
       /\ (node = "reflector" =>
             /\ KeepsAllBut({"reflection", "quality_score", "needs_human_input",
                             "thoughts"})
             /\ \A k \in {"tool_calls_made", "tool_results", "skipped_tasks",
                          "retrieved_contexts", "final_answer", "is_complete"} :
                  st'[k] = st[k])]_vars

\* reflector has just run on a state that holds passages, tool calls, tool
\* results and a skipped task
C32_Witness ==
  /\ Fixed
  /\ node = "synthesizer"
  /\ trace[Len(trace)] = "reflector"
  /\ Len(st.retrieved_contexts) > 0
  /\ Len(st.tool_calls_made) > 0
  /\ Len(st.tool_results) > 0
  /\ Len(st.skipped_tasks) > 0
  /\ st.reflection # Null

\* ------------------------------------------------------------------- C33
\* C33 as the specification states it: in every reachable state of a run
\* next_action is unset or one of search_kb, tool_executor, synthesize,
\* continue, skip and break.
C33_NextActionValues_AsClaimed ==
  st.next_action \in {Null, "search_kb", "tool_executor", "synthesize",
                      "continue", "skip", "break"}

\* ------------------------------------------------------------------- C34
\* task inference finds a category for the query that is neither executed
\* nor skipped
InfersPending(state) ==
  \E t \in Range(infer_tool_tasks(state.user_query)) :
    /\ \A i \in 1..Len(state.tool_calls_made) : state.tool_calls_made[i].task # t
    /\ \A i \in 1..Len(state.skipped_tasks) : state.skipped_tasks[i].task # t

\* C34: on the router's first pass (current_step = 0 < max_iterations), if
\* the knowledge base is not requested and task inference finds a pending
\* category, the router returns tool_executor without a model call; at step
\* 0 the model is asked only when neither the knowledge-base rule nor the
\* pending-task rule applies.
C34_FirstPassHeuristic ==
  [][Fixed /\ node = "router" /\ st.current_step = 0 /\ 0 < st.max_iterations =>
       /\ (~st.use_knowledge_base /\ InfersPending(st) =>
             /\ st'.next_action = "tool_executor"
             /\ reply' = NoReply
             /\ llmCalls' = llmCalls)
       /\ (llmCalls' # llmCalls \/ reply' # NoReply =>
             /\ ~(st.use_knowledge_base /\ ~AnyKb(st.observations))
             /\ ~InfersPending(st))]_vars

\* the first router pass of a run without the knowledge base and with a
\* pending category has chosen tool_executor; the model was asked by planner
\* only
C34_Witness ==
  /\ Fixed
  /\ trace = <<"planner", "router">>
  /\ ~st.use_knowledge_base
  /\ InfersPending(st)
  /\ st.next_action = "tool_executor"
  /\ node = "tool_executor"
  /\ llmCalls = 1
  /\ reply = NoReply

\* ------------------------------------------------------------------- C35
\* the router passes made at a step >= 1 below the cap all led to
\* tool_executor: every router pass but the first and the last of the trace
\* is followed by tool_executor, and the last one was made at the cap
RouterKeptCallingTools ==
  /\ st.current_step > st.max_iterations
  /\ \A i \in 1..(Len(trace) - 1) :
       (/\ trace[i] = "router"
        /\ \E j \in 1..(i - 1) : trace[j] = "router"
        /\ \E j \in (i + 1)..Len(trace) : trace[j] = "router")
       => trace[i + 1] = "tool_executor"

\* no tool execution of the run has raised
NoToolFailure ==
  \A i \in 1..Len(st.observations) : st.observations[i].src # "tool_failed"

\* C35: if the router decides for tool_executor at every step >= 1 until the
\* cap, every tool execution succeeds and max_iterations is at least the
\* number of inferred categories plus one, then when the run reaches
\* reflector every inferred category is in tool_calls_made or skipped_tasks.
C35_RouterLoopDrains ==
  (/\ Fixed
   /\ node = "reflector"
   /\ RouterKeptCallingTools
   /\ NoToolFailure
   /\ st.max_iterations >= Len(infer_tool_tasks(st.user_query)) + 1)
  => \A t \in Range(infer_tool_tasks(st.user_query)) :
       t \in TasksOf(st.tool_calls_made) \cup TasksOf(st.skipped_tasks)

\* a run for a query with the categories search and diagram and
\* max_iterations = 3 has reached reflector after the knowledge search and
\* two tool_executor passes, with both categories executed
C35_Witness ==
  /\ Fixed
  /\ node = "reflector"
  /\ RouterKeptCallingTools
  /\ NoToolFailure
  /\ infer_tool_tasks(st.user_query) = <<"search", "diagram">>
  /\ st.max_iterations = 3
  /\ Runs("knowledge_search") = 1
  /\ Runs("tool_executor") = 2
  /\ TasksOf(st.tool_calls_made) = {"search", "diagram"}

\* ------------------------------------------------------------------- C36
\* C36: in a run of the built-in graph knowledge_search executes at most
\* once: after its first execution, whether it returned passages, returned
\* none or failed, no router pass returns search_kb.
C36_SearchAtMostOnce ==
  [][Fixed =>
       /\ Runs("knowledge_search")' <= 1
       /\ (Runs("knowledge_search") >= 1 /\ node = "router" =>
             st'.next_action # "search_kb" /\ node' # "knowledge_search")]_vars

\* after a knowledge search that failed the model asked for the search
\* again, and the router did not return search_kb
C36_Witness ==
  /\ Fixed
  /\ Runs("knowledge_search") = 1
  /\ Len(st.retrieved_contexts) = 0
  /\ \E i \in 1..Len(st.observations) : st.observations[i].src = "kb_failed"
  /\ trace[Len(trace)] = "router"
  /\ AnsweredSearch
  /\ st.next_action # "search_kb"
  /\ node # "knowledge_search"

\* ------------------------------------------------------------------- C37
\* C37 as the specification states it: in a run of the built-in graph
\* started with use_knowledge_base = false, knowledge_search never executes
\* and retrieved_contexts stays empty, whatever the model answers to the
\* router.
C37_NoSearchWithoutKb_AsClaimed ==
  Fixed /\ ~st.use_knowledge_base =>
    /\ Runs("knowledge_search") = 0
    /\ node # "knowledge_search"
    /\ Len(st.retrieved_contexts) = 0

ParallelQuery == <<"cha", "beijing", "tianqi", "sousuo", "xinwen">>

\* the runs for the query of the test, with registries that hold a weather
\* and a search tool
InitExec ==
  /\ \/ /\ graph = FixedGraph
        /\ \E kb \in BOOLEAN, m \in 1..3 :
             st = InitialState(ParallelQuery, kb, m)
        /\ node = "planner"
     \/ InitDynamic
  /\ tools \in {<<WeatherTool, SearchTool>>,
                <<WeatherTool, SearchTool, DiagramTool, NoteTool>>}
  /\ trace = <<>>
  /\ reply = NoReply
  /\ llmCalls = 0
  /\ execCalls = 0
  /\ raised = FALSE
  /\ OneRun

SpecExec == InitExec /\ [][Next]_vars

\* C39 as the test states it: tool_executor_node, invoked for a query that
\* infers the weather and search categories, with a weather and a search
\* tool registered, empty tool_calls_made, tool_results and skipped_tasks
\* and an execute_tool that fails, raises an exception to its caller.
C39_ToolFailurePropagates_AsClaimed ==
  [][(/\ Fixed
      /\ node = "tool_executor"
      /\ infer_tool_tasks(st.user_query) = <<"weather", "search">>
      /\ FirstToolFor("weather", tools, 1) # <<>>
      /\ FirstToolFor("search", tools, 1) # <<>>
      /\ st.tool_calls_made = <<>>
      /\ st.tool_results = <<>>
      /\ st.skipped_tasks = <<>>
      /\ raised')
     => node' = "EXCEPTION"]_vars

====
